---- MODULE Spec2Model ----
(***************************************************************************)
(* Model of riv's Program (src/src/program.rs) and of the command line     *)
(* front end that fills its image list (src/src/cli.rs).                   *)
(*                                                                         *)
(* Two specifications share the same methods:                              *)
(*   Spec         the binary: cli() builds the list, run() renders once    *)
(*                and then dispatches one Action per event; the step of    *)
(*                increment/decrement is the literal 1 of run().           *)
(*   SpecBrowser  the methods of Program called directly, with any step    *)
(*                and over any Args.files (Args is a pub struct with pub   *)
(*                fields), i.e. the Browser contract of the design.        *)
(*   SpecFit      make_dst applied to source and viewport sizes.           *)
(***************************************************************************)
EXTENDS Integers, Sequences, FiniteSets, TLC

VARIABLES images, index, dest_folder, ui_state, fs, viewport, build, pc,
          lastcall, calls, fit

vars == <<images, index, dest_folder, ui_state, fs, viewport, build, pc,
          lastcall, calls, fit>>

-----------------------------------------------------------------------------
(* Bounds *)

\* longest list of glob matches / of Args.files
MaxLen == 3

\* largest step handed to increment / decrement in SpecBrowser
MaxStep == 4

\* largest of the small source and viewport sizes of SpecFit
MaxDim == 13

-----------------------------------------------------------------------------
(* Paths.  A path is kept in parsed form: its directory, the stem of its   *)
(* last component and that component's extension ("" = none).  A path      *)
(* whose last component is ".." has no file name.                          *)

None == "None"

Path(d, s, e) == [dir |-> d, stem |-> s, ext |-> e]

\* the paths a glob may yield, in the alphabetical order glob yields them
PathUniverse ==
  << Path("d1", "..", ""),
     Path("d1", "a", "JPG"),
     Path("d1", "b", "png"),
     Path("d1", "c", "txt"),
     Path("d2", "a", "JPG"),
     Path("d2", "b", "png"),
     Path("d2", "e", "webp") >>

\* Path::file_name: None when the path ends in ".."
file_name(p) == IF p.stem = ".." THEN None ELSE <<p.stem, p.ext>>

\* Path::extension: None without a file name or without a dot
extension(p) ==
  IF file_name(p) = None THEN None
  ELSE IF p.ext = "" THEN None ELSE p.ext

\* str::to_lowercase on the extensions of the universe
to_lowercase(s) ==
  CASE s = "JPG" -> "jpg"
    [] s = "PNG" -> "png"
    [] OTHER -> s

\* the extension test of cli(), lines 46-57
is_image(p) ==
  /\ extension(p) # None
  /\ LET low == to_lowercase(extension(p))
     IN low = "jpg" \/ low = "jpeg" \/ low = "png" \/ low = "bmp" \/ low = "webp"

\* the ascending enumeration of a set of positions
RECURSIVE SortedSeq(_)
SortedSeq(S) ==
  IF S = {} THEN << >>
  ELSE LET m == CHOOSE x \in S : \A y \in S : x <= y
       IN <<m>> \o SortedSeq(S \ {m})

\* what glob(pattern) can yield: an ordered selection of the universe
GlobMatches ==
  { [k \in 1..Cardinality(S) |-> PathUniverse[SortedSeq(S)[k]]] :
      S \in { T \in SUBSET (1..Len(PathUniverse)) : Cardinality(T) <= MaxLen } }

\* cli(): keep the matches with a recognised extension, in order
cli(glob_matches) == SelectSeq(glob_matches, is_image)

-----------------------------------------------------------------------------
(* usize arithmetic.  index and len are usize; `len - step` panics with    *)
(* overflow checks on and wraps without them.  The modulus stands for      *)
(* 2^64: every value of the model is far below it.                         *)

UsizeModulus == 2^30

wrapping_sub(a, b) == (a - b) % UsizeModulus

\* a remove that is off by one position
RemoveAt_before(s, i) == [j \in 1..(Len(s) - 1) |-> IF j < i THEN s[j] ELSE s[j + 1]]

\* a remove that fills the gap with the last element (Vec::swap_remove)
RemoveAt_swap(s, i) ==
  [j \in 1..(Len(s) - 1) |-> IF j = i + 1 THEN s[Len(s)] ELSE s[j]]

\* a remove that drops the last element instead (Vec::pop)
RemoveAt_pop(s, i) == SubSeq(s, 1, Len(s) - 1)

\* Vec::remove(i), i counted from 0
RemoveAt(s, i) == [j \in 1..(Len(s) - 1) |-> IF j <= i THEN s[j] ELSE s[j + 1]]

\* an increment without the bound test
increment_index_unguarded(idx, len, step) == idx + step

\* increment, lines 98-100: the index after `if index < len - step`
increment_index(idx, len, step) ==
  IF idx < wrapping_sub(len, step) THEN idx + step ELSE idx

\* decrement, lines 105-107
decrement_index(idx, step) == IF idx >= step THEN idx - step ELSE idx

\* a last without the test for the empty list
last_index_unguarded(len) == wrapping_sub(len, 1)

\* last, lines 117-121
last_index(len) == IF len = 0 THEN 0 ELSE len - 1

\* a move_image that forgets to step back from the removed last element
index_after_remove_stay(idx, imgs) == idx

\* move_image, lines 134-136: the index once the element is removed
index_after_remove(idx, imgs) ==
  IF idx >= Len(imgs) /\ imgs # << >> THEN idx - 1 ELSE idx

\* a match that lets only Ok through
dir_ensured_strict(mkdir) == mkdir = "Ok"

\* move_image, lines 126-132: Ok and ErrorKind::AlreadyExists go on
dir_ensured(mkdir) == mkdir = "Ok" \/ mkdir = "AlreadyExists"

-----------------------------------------------------------------------------
(* f32 arithmetic.  A positive f32 is kept as mantissa and exponent:       *)
(* [m, e] stands for m * 2^e with 2^23 <= m < 2^24; zero is [0, 0].        *)
(* Division and multiplication round to nearest, ties to even, as IEEE 754 *)
(* single precision does.  The operands of the model are integers below    *)
(* 2^24 and their quotients, so no subnormal, infinity or NaN arises.      *)

F32Zero == [m |-> 0, e |-> 0]

RECURSIVE f32_normalise(_, _)
f32_normalise(m, e) ==
  IF m >= 2^23 THEN [m |-> m, e |-> e] ELSE f32_normalise(2 * m, e - 1)

\* `n as f32` for 0 <= n < 2^24 (exact)
u32_as_f32(n) == IF n = 0 THEN F32Zero ELSE f32_normalise(n, 0)

\* round a mantissa given the discarded remainder and half of its unit
f32_round(m, e, rem, half) ==
  LET up == rem > half \/ (rem = half /\ m % 2 = 1)
      m1 == IF up THEN m + 1 ELSE m
  IN IF m1 = 2^24 THEN [m |-> 2^23, e |-> e + 1] ELSE [m |-> m1, e |-> e]

\* k more quotient bits of r / b by long division: <<quotient, remainder>>
RECURSIVE long_div(_, _, _, _)
long_div(q, r, b, k) ==
  IF k = 0 THEN <<q, r>>
  ELSE IF 2 * r >= b THEN long_div(2 * q + 1, 2 * r - b, b, k - 1)
       ELSE long_div(2 * q, 2 * r, b, k - 1)

\* a / b
f32_div(a, b) ==
  IF a.m = 0 THEN F32Zero
  ELSE LET k == IF a.m >= b.m THEN 23 ELSE 24
           d == long_div(a.m \div b.m, a.m % b.m, b.m, k)
       IN f32_round(d[1], a.e - b.e - k, 2 * d[2], b.m)

\* a * b: the 48-bit product of the mantissas in 12-bit limbs
f32_mul(a, b) ==
  IF a.m = 0 \/ b.m = 0 THEN F32Zero
  ELSE LET a1 == a.m \div 4096
           a0 == a.m % 4096
           b1 == b.m \div 4096
           b0 == b.m % 4096
           mid == a1 * b0 + a0 * b1
           t == a0 * b0 + (mid % 4096) * 4096
           lo == t % 2^24
           hi == a1 * b1 + (mid \div 4096) + (t \div 2^24)
       IN IF hi >= 2^23
          THEN f32_round(hi, a.e + b.e + 24, lo, 2^23)
          ELSE f32_round(2 * hi + (lo \div 2^23), a.e + b.e + 23,
                         lo % 2^23, 2^22)

\* a > b for non-negative a and positive b
f32_gt(a, b) == a.m # 0 /\ (a.e > b.e \/ (a.e = b.e /\ a.m > b.m))

I32Max == 2147483647

\* `f as i32` / `f as u32`: truncation toward zero, saturating (the values
\* of the model stay below 2^31 except for the wrapped difference)
f32_as_int(f) ==
  IF f.m = 0 THEN 0
  ELSE IF f.e >= 8 THEN I32Max
  ELSE IF f.e >= 0 THEN f.m * 2^f.e
  ELSE IF f.e <= -24 THEN 0
  ELSE f.m \div 2^(-f.e)

\* `(2^32 - k) as f32` for 0 < k < 2^24: the u32 a wrapped subtraction
\* leaves; floats in [2^31, 2^32] are 256 apart
wrapped_as_f32(k) ==
  LET q == k \div 256
      r == k % 256
      down == r > 128 \/ (r = 128 /\ (2^24 - q) % 2 = 1)
      m == IF down THEN 2^24 - q - 1 ELSE 2^24 - q
  IN IF m = 2^24 THEN [m |-> 2^23, e |-> 9] ELSE [m |-> m, e |-> 8]

F32Two == u32_as_f32(2)

\* `((a - b) as f32 / 2.0) as i32` on u32 a, b: [v, panic]
half_gap(a, b, overflow_checks) ==
  IF a >= b
  THEN [v |-> f32_as_int(f32_div(u32_as_f32(a - b), F32Two)), panic |-> FALSE]
  ELSE IF overflow_checks THEN [v |-> 0, panic |-> TRUE]
  ELSE [v |-> f32_as_int(f32_div(wrapped_as_f32(b - a), F32Two)),
        panic |-> FALSE]

\* the arguments handed to Rect::new, and whether a subtraction panicked
Rect(x, y, w, h, p) == [x |-> x, y |-> y, w |-> w, h |-> h, panic |-> p]

full_rect(src_x, src_y, dst_x, dst_y, oc) ==
  LET y == half_gap(dst_y, src_y, oc)
      x == half_gap(dst_x, src_x, oc)
  IN Rect(x.v, y.v, src_x, src_y, x.panic \/ y.panic)

fit_x_rect(src_x, src_y, dst_x, dst_y, oc) ==
  LET height == f32_as_int(f32_mul(f32_div(u32_as_f32(src_y), u32_as_f32(src_x)),
                                   u32_as_f32(dst_x)))
      y == half_gap(dst_y, height, oc)
  IN Rect(0, y.v, dst_x, height, y.panic)

fit_y_rect(src_x, src_y, dst_x, dst_y, oc) ==
  LET width == f32_as_int(f32_mul(f32_div(u32_as_f32(src_x), u32_as_f32(src_y)),
                                  u32_as_f32(dst_y)))
      x == half_gap(dst_x, width, oc)
  IN Rect(x.v, 0, width, dst_y, x.panic)

\* make_dst, line 182: src_x / src_y > dst_x / dst_y in f32
wider_aspect(src_x, src_y, dst_x, dst_y) ==
  f32_gt(f32_div(u32_as_f32(src_x), u32_as_f32(src_y)),
         f32_div(u32_as_f32(dst_x), u32_as_f32(dst_y)))

make_dst(src_x, src_y, dst_x, dst_y, oc) ==
  IF src_x < dst_x /\ src_y < dst_y
  THEN full_rect(src_x, src_y, dst_x, dst_y, oc)
  ELSE IF wider_aspect(src_x, src_y, dst_x, dst_y)
  THEN fit_x_rect(src_x, src_y, dst_x, dst_y, oc)
  ELSE fit_y_rect(src_x, src_y, dst_x, dst_y, oc)

-----------------------------------------------------------------------------
(* The destination folder on disk: kind is what dest_folder names          *)
(* ("absent", "dir" or a plain "file"), files the base names inside it.    *)

\* results std::fs::create_dir_all can give for dest_folder
MkdirOutcomes(kind) ==
  IF kind = "file" THEN {"AlreadyExists", "Other"} ELSE {"Ok", "Other"}

\* fs_extra move_file with default CopyOptions: fails on an io error, when
\* the target exists, or when dest_folder is not a directory
move_file_ok(kind, files, name, io) ==
  io = "ok" /\ kind = "dir" /\ name \notin files

-----------------------------------------------------------------------------
(* Program::render as a function of the list and index it is called with:  *)
(* its result and the calls it makes on the texture creator and canvas.    *)

\* texture.query() of the image loaded from a path: its width and height
texture_size(p) ==
  CASE p.stem = "a" -> <<4, 3>>
    [] p.stem = "b" -> <<20, 5>>
    [] p.stem = "e" -> <<13, 11>>
    [] OTHER -> <<1, 1>>

\* canvas.viewport(): the sizes the window takes
Viewports == {<<8, 6>>}

\* the sizes of the images of the universe
TextureSizes == { texture_size(PathUniverse[i]) : i \in 1..Len(PathUniverse) }

\* no make_dst evaluated
NoFit == [src_x |-> 0, src_y |-> 0, dst_x |-> 0, dst_y |-> 0,
          rect |-> Rect(0, 0, 0, 0, FALSE)]

\* one evaluation of make_dst: its arguments and the rectangle
Fit(src_x, src_y, dst_x, dst_y, oc) ==
  [src_x |-> src_x, src_y |-> src_y, dst_x |-> dst_x, dst_y |-> dst_y,
   rect |-> make_dst(src_x, src_y, dst_x, dst_y, oc)]

\* make_dst on every image size and viewport render can meet, tabulated
RenderFits ==
  [q \in TextureSizes, vp \in Viewports, oc \in BOOLEAN |->
     Fit(q[1], q[2], vp[1], vp[2], oc)]

\* a render that presents before it draws
render_calls_swapped(copy) ==
  IF copy = "err" THEN <<"load", "query", "viewport", "clear", "draw">>
  ELSE <<"load", "query", "viewport", "clear", "present", "draw">>

\* render, lines 82-91: the calls made once the texture is loaded
render_calls(copy) ==
  IF copy = "err" THEN <<"load", "query", "viewport", "clear", "draw">>
  ELSE <<"load", "query", "viewport", "clear", "draw", "present">>

render(imgs, idx, load, copy, vp) ==
  IF imgs = << >>
  THEN [res |-> "Ok", calls |-> << >>, load |-> "none", copy |-> "none",
        fit |-> NoFit]
  ELSE IF idx >= Len(imgs)
  THEN [res |-> "panic", calls |-> << >>, load |-> "none", copy |-> "none",
        fit |-> NoFit]
  ELSE IF load = "err"
  THEN [res |-> "Ok", calls |-> <<"load">>, load |-> "err", copy |-> "none",
        fit |-> NoFit]
  ELSE LET q == texture_size(imgs[idx + 1])
           f == RenderFits[q, vp, build = "debug"]
       IN IF f.rect.panic
          THEN [res |-> "panic", calls |-> <<"load", "query", "viewport">>,
                load |-> "ok", copy |-> "none", fit |-> f]
          ELSE [res |-> "Ok", calls |-> render_calls(copy), load |-> "ok",
                copy |-> copy, fit |-> f]

\* the record kept of the call just made: its arguments, the state it
\* started from, what it returned and what the file system answered
Call(op, step, res, mkdir, mv) ==
  [op |-> op, step |-> step, images0 |-> images, index0 |-> index,
   fs0 |-> fs, res |-> res, mkdir |-> mkdir, mv |-> mv,
   shift |-> (ui_state.left_shift \/ ui_state.right_shift),
   load |-> "none", copy |-> "none"]

\* the same for a call that went through render: r is what render gave
CallR(op, step, r, mkdir, mv) ==
  [Call(op, step, r.res, mkdir, mv) EXCEPT !.load = r.load, !.copy = r.copy]

-----------------------------------------------------------------------------
(* The methods of Program *)

\* what no method of Program writes
Frame == UNCHANGED <<dest_folder, ui_state, build>>

\* render on a window of size vp
do_render(load, copy, vp) ==
  LET r == render(images, index, load, copy, vp)
  IN /\ viewport' = vp
     /\ calls' = r.calls
     /\ fit' = r.fit
     /\ lastcall' = CallR("render", 0, r, "none", "none")
     /\ UNCHANGED <<images, index, fs>>
     /\ Frame

increment(step, overflow_checks, load, copy) ==
  LET len == Len(images)
  IN IF len = 0 \/ len = 1
     THEN /\ calls' = << >>
          /\ fit' = NoFit
          /\ lastcall' = Call("increment", step, "Ok", "none", "none")
          /\ UNCHANGED <<images, index, fs, viewport>>
          /\ Frame
     ELSE IF step > len /\ overflow_checks
     THEN /\ calls' = << >>
          /\ fit' = NoFit
          /\ lastcall' = Call("increment", step, "panic", "none", "none")
          /\ UNCHANGED <<images, index, fs, viewport>>
          /\ Frame
     ELSE LET idx == increment_index(index, len, step)
              r == render(images, idx, load, copy, viewport)
          IN /\ index' = idx
             /\ calls' = r.calls
             /\ fit' = r.fit
             /\ lastcall' = CallR("increment", step, r, "none", "none")
             /\ UNCHANGED <<images, fs, viewport>>
             /\ Frame

decrement(step, load, copy) ==
  LET idx == decrement_index(index, step)
      r == render(images, idx, load, copy, viewport)
  IN /\ index' = idx
     /\ calls' = r.calls
     /\ fit' = r.fit
     /\ lastcall' = CallR("decrement", step, r, "none", "none")
     /\ UNCHANGED <<images, fs, viewport>>
     /\ Frame

first(load, copy) ==
  LET r == render(images, 0, load, copy, viewport)
  IN /\ index' = 0
     /\ calls' = r.calls
     /\ fit' = r.fit
     /\ lastcall' = CallR("first", 0, r, "none", "none")
     /\ UNCHANGED <<images, fs, viewport>>
     /\ Frame

last(load, copy) ==
  LET idx == last_index(Len(images))
      r == render(images, idx, load, copy, viewport)
  IN /\ index' = idx
     /\ calls' = r.calls
     /\ fit' = r.fit
     /\ lastcall' = CallR("last", 0, r, "none", "none")
     /\ UNCHANGED <<images, fs, viewport>>
     /\ Frame

move_image(mkdir, io, load, copy) ==
  IF ~dir_ensured(mkdir)
  THEN /\ calls' = << >>
       /\ fit' = NoFit
       /\ lastcall' = Call("move_image", 0, "Err", mkdir, "none")
       /\ UNCHANGED <<images, index, fs, viewport>>
       /\ Frame
  ELSE LET kind == IF mkdir = "Ok" THEN "dir" ELSE fs.kind
       IN IF index >= Len(images)
          THEN \* Vec::remove panics
               /\ fs' = [fs EXCEPT !.kind = kind]
               /\ calls' = << >>
               /\ fit' = NoFit
               /\ lastcall' = Call("move_image", 0, "panic", mkdir, "none")
               /\ UNCHANGED <<images, index, viewport>>
               /\ Frame
          ELSE LET filepath == images[index + 1]
                   imgs == RemoveAt(images, index)
                   idx == index_after_remove(index, imgs)
                   filename == file_name(filepath)
               IN /\ images' = imgs
                  /\ index' = idx
                  /\ UNCHANGED viewport
                  /\ Frame
                  /\ IF filename = None
                     THEN /\ fs' = [fs EXCEPT !.kind = kind]
                          /\ calls' = << >>
                          /\ fit' = NoFit
                          /\ lastcall' = Call("move_image", 0, "Err", mkdir, "none")
                     ELSE IF ~move_file_ok(kind, fs.files, filename, io)
                     THEN /\ fs' = [fs EXCEPT !.kind = kind]
                          /\ calls' = << >>
                          /\ fit' = NoFit
                          /\ lastcall' = Call("move_image", 0, "Err", mkdir, "err")
                     ELSE LET r == render(imgs, idx, load, copy, viewport)
                          IN /\ fs' = [kind |-> kind,
                                       files |-> fs.files \cup {filename}]
                             /\ calls' = r.calls
                             /\ fit' = r.fit
                             /\ lastcall' = CallR("move_image", 0, r, mkdir, "ok")

-----------------------------------------------------------------------------
(* Program::init and Program::run *)

Outcome == {"ok", "err"}

DestKinds == {"absent", "dir", "file"}

NoCall == [op |-> "init", step |-> 0, images0 |-> << >>, index0 |-> 0,
           fs0 |-> [kind |-> "absent", files |-> {}], res |-> "Ok",
           mkdir |-> "none", mv |-> "none", shift |-> FALSE,
           load |-> "none", copy |-> "none"]

\* what holds after construction whatever the list is
InitCommon ==
  /\ index = 0
  /\ dest_folder = "./keep"
  /\ ui_state = [left_shift |-> FALSE, right_shift |-> FALSE]
  /\ viewport \in Viewports
  /\ build \in {"debug", "release"}
  /\ lastcall = NoCall
  /\ calls = << >>
  /\ fit = NoFit

\* Program::init: the list comes from cli(), index starts at 0
Init ==
  /\ \E g \in GlobMatches : images = cli(g)
  /\ \E k \in DestKinds : fs = [kind |-> k, files |-> {}]
  /\ pc = "start"
  /\ InitCommon

\* how run() goes on after a call: a panic ends the process, an Err that
\* `?` propagates ends run(), anything else returns to the loop
After(propagate) ==
  pc' = IF lastcall'.res = "panic" THEN "panic"
        ELSE IF lastcall'.res = "Err" /\ propagate THEN "failed"
        ELSE "loop"

\* run(), line 149: the first render
RunStart ==
  /\ pc = "start"
  /\ \E load \in Outcome, copy \in Outcome : do_render(load, copy, viewport)
  /\ After(TRUE)

EvQuit ==
  /\ pc = "loop"
  /\ pc' = "done"
  /\ UNCHANGED <<images, index, dest_folder, ui_state, fs, viewport, build,
                 lastcall, calls, fit>>

\* a resized or exposed window: the viewport may have a new size
EvReRender ==
  /\ pc = "loop"
  /\ \E load \in Outcome, copy \in Outcome, vp \in Viewports :
       do_render(load, copy, vp)
  /\ After(TRUE)

EvNext ==
  /\ pc = "loop"
  /\ \E load \in Outcome, copy \in Outcome :
       increment(1, build = "debug", load, copy)
  /\ After(TRUE)

EvPrev ==
  /\ pc = "loop"
  /\ \E load \in Outcome, copy \in Outcome : decrement(1, load, copy)
  /\ After(TRUE)

EvMove ==
  /\ pc = "loop"
  /\ \E mkdir \in MkdirOutcomes(fs.kind), io \in Outcome,
        load \in Outcome, copy \in Outcome :
       move_image(mkdir, io, load, copy)
  /\ After(FALSE)

EvFirst ==
  /\ pc = "loop"
  /\ \E load \in Outcome, copy \in Outcome : first(load, copy)
  /\ After(TRUE)

EvLast ==
  /\ pc = "loop"
  /\ \E load \in Outcome, copy \in Outcome : last(load, copy)
  /\ After(TRUE)

EvNoop ==
  /\ pc = "loop"
  /\ UNCHANGED vars

\* ui::event_action on a shift key going down or up: ModifierState follows
\* the key and the action is Noop
EvShift ==
  /\ pc = "loop"
  /\ \E key \in {"left_shift", "right_shift"}, down \in BOOLEAN :
       ui_state' = [ui_state EXCEPT ![key] = down]
  /\ UNCHANGED <<images, index, dest_folder, fs, viewport, build, pc,
                 lastcall, calls, fit>>

Next ==
  \/ RunStart
  \/ EvQuit
  \/ EvReRender
  \/ EvNext
  \/ EvPrev
  \/ EvMove
  \/ EvFirst
  \/ EvLast
  \/ EvNoop
  \/ EvShift

Spec == Init /\ [][Next]_vars

-----------------------------------------------------------------------------
(* The Browser contract: the methods called directly *)

\* any list of paths handed over as Args.files
InitBrowser ==
  /\ images \in GlobMatches
  /\ \E k \in DestKinds : fs = [kind |-> k, files |-> {}]
  /\ pc = "loop"
  /\ InitCommon

CallRender ==
  /\ pc = "loop"
  /\ \E load \in Outcome, copy \in Outcome, vp \in Viewports :
       do_render(load, copy, vp)
  /\ After(FALSE)

CallNext ==
  /\ pc = "loop"
  /\ \E step \in 1..MaxStep, load \in Outcome, copy \in Outcome :
       increment(step, build = "debug", load, copy)
  /\ After(FALSE)

CallPrev ==
  /\ pc = "loop"
  /\ \E step \in 1..MaxStep, load \in Outcome, copy \in Outcome :
       decrement(step, load, copy)
  /\ After(FALSE)

CallFirst ==
  /\ pc = "loop"
  /\ \E load \in Outcome, copy \in Outcome : first(load, copy)
  /\ After(FALSE)

CallLast ==
  /\ pc = "loop"
  /\ \E load \in Outcome, copy \in Outcome : last(load, copy)
  /\ After(FALSE)

CallMove ==
  /\ pc = "loop"
  /\ \E mkdir \in MkdirOutcomes(fs.kind), io \in Outcome,
        load \in Outcome, copy \in Outcome :
       move_image(mkdir, io, load, copy)
  /\ After(FALSE)

NextBrowser ==
  \/ CallRender
  \/ CallNext
  \/ CallPrev
  \/ CallFirst
  \/ CallLast
  \/ CallMove

SpecBrowser == InitBrowser /\ [][NextBrowser]_vars

-----------------------------------------------------------------------------
(* Fit Geometry: make_dst on its own *)

\* the sizes of the design's scenarios, a common full-screen size and a
\* viewport beyond 2^23 pixels
FitScenarios ==
  { <<800, 600, 1000, 1000>>, <<2000, 500, 800, 600>>,
    <<500, 2000, 800, 600>>, <<1920, 1080, 1920, 1080>>,
    <<11573757, 2486, 11573757, 2486>> }

\* <<src_x, src_y, dst_x, dst_y>>: every combination of small sizes and
\* the scenarios
FitInputs ==
  ((1..MaxDim) \X (1..MaxDim) \X (1..MaxDim) \X (1..MaxDim)) \cup FitScenarios

InitFit ==
  /\ images = << >>
  /\ fs = [kind |-> "absent", files |-> {}]
  /\ pc = "fit"
  /\ InitCommon

\* one call of make_dst
FitCall ==
  /\ pc = "fit"
  /\ fit = NoFit
  /\ \E i \in FitInputs : fit' = Fit(i[1], i[2], i[3], i[4], build = "debug")
  /\ UNCHANGED <<images, index, dest_folder, ui_state, fs, viewport, build,
                 pc, lastcall, calls>>

NextFit == FitCall

SpecFit == InitFit /\ [][NextFit]_vars

-----------------------------------------------------------------------------
(* Properties.  lastcall holds the call just made: images0, index0 and fs0 are *)
(* the state it started from, images, index and fs the state it left.      *)

\* the destination folder was ensured, so the call went on to the removal
Removed ==
  /\ lastcall.op = "move_image"
  /\ dir_ensured(lastcall.mkdir)
  /\ lastcall.index0 < Len(lastcall.images0)

\* C1: for every non-empty list, after any sequence of Next(step),
\* Prev(step), First and Last with any positive step, CurrentIndex is
\* still within [0, len(ImageList)).
C1_IndexWithinList ==
  images # << >> => (0 <= index /\ index < Len(images))

\* C2: in every state of the event loop, whenever ImageList is non-empty
\* CurrentIndex addresses one of its elements; Next at the last element and
\* Prev at the first stay where they are instead of wrapping around.
C2_LoopIndexValid ==
  /\ images # << >> => index \in 0..(Len(images) - 1)
  /\ (lastcall.op = "increment" /\ lastcall.images0 # << >>
        /\ lastcall.index0 = Len(lastcall.images0) - 1) => index = lastcall.index0
  /\ (lastcall.op = "decrement" /\ lastcall.index0 = 0) => index = 0

\* a Move of the last element of a longer list failed after the removal
C2_Witness ==
  /\ Removed
  /\ lastcall.res = "Err"
  /\ Len(lastcall.images0) >= 2
  /\ lastcall.index0 = Len(lastcall.images0) - 1
  /\ images # << >>

\* C3: Next(step) on a non-empty list advances by step when
\* CurrentIndex + step <= len-1 and otherwise leaves CurrentIndex
\* unchanged, for every positive step, step >= len included.
C3_NextAdvancesOrStays ==
  (lastcall.op = "increment" /\ lastcall.images0 # << >>) =>
     index = IF lastcall.index0 + lastcall.step <= Len(lastcall.images0) - 1
             THEN lastcall.index0 + lastcall.step
             ELSE lastcall.index0

\* C4: Prev(step) with CurrentIndex < step sets CurrentIndex to 0; with
\* CurrentIndex >= step it decreases CurrentIndex by exactly step.
C4_PrevClampsToZero ==
  lastcall.op = "decrement" =>
     index = IF lastcall.index0 < lastcall.step THEN 0 ELSE lastcall.index0 - lastcall.step

\* C5: on an empty ImageList each of Render, Next, Prev and Move returns
\* success, leaves ImageList and CurrentIndex unchanged and does not end
\* the control loop.
C5_EmptyListNoOp ==
  (lastcall.op \in {"render", "increment", "decrement", "move_image"}
     /\ lastcall.images0 = << >>) =>
       /\ lastcall.res = "Ok"
       /\ images = lastcall.images0
       /\ index = lastcall.index0
       /\ pc \notin {"panic", "failed"}

\* C6: a successful Move shrinks ImageList by exactly one element, the one
\* that was at CurrentIndex, keeps the others in their order, and never
\* increases CurrentIndex.
C6_MoveRemovesCurrent ==
  (lastcall.op = "move_image" /\ lastcall.res = "Ok") =>
     /\ Len(images) = Len(lastcall.images0) - 1
     /\ \A j \in 0..(Len(images) - 1) :
          images[j + 1] = IF j < lastcall.index0 THEN lastcall.images0[j + 1]
                          ELSE lastcall.images0[j + 2]
     /\ index <= lastcall.index0

\* a successful Move of the middle one of three images
C6_Witness ==
  /\ lastcall.op = "move_image"
  /\ lastcall.res = "Ok"
  /\ Len(lastcall.images0) = 3
  /\ lastcall.index0 = 1

\* C7: Move on the last element of a list of length n >= 2 leaves
\* CurrentIndex = n-2; with n = 1 the list becomes empty and CurrentIndex
\* is not changed.  (The Move meant is one that got to the removal.)
C7_MoveAtLast ==
  (Removed /\ lastcall.index0 = Len(lastcall.images0) - 1) =>
     IF Len(lastcall.images0) >= 2
     THEN index = Len(lastcall.images0) - 2
     ELSE images = << >> /\ index = lastcall.index0

\* a Move of the last of three images
C7_Witness ==
  /\ Removed
  /\ Len(lastcall.images0) = 3
  /\ lastcall.index0 = 2

\* a Move of the only image
C7_WitnessSingle ==
  /\ Removed
  /\ Len(lastcall.images0) = 1
  /\ images = << >>

\* C8: Move with CurrentIndex = i not the last element leaves
\* CurrentIndex = i, and the element now at i is the one that was at i+1.
C8_MoveNotLast ==
  (Removed /\ lastcall.index0 < Len(lastcall.images0) - 1) =>
     /\ index = lastcall.index0
     /\ images[index + 1] = lastcall.images0[lastcall.index0 + 2]

\* the middle one of three images was moved; the index still reads 1
C8_Witness ==
  /\ Removed
  /\ lastcall.res = "Ok"
  /\ Len(lastcall.images0) = 3
  /\ lastcall.index0 = 1
  /\ index = 1

C10_FolderFailure ==
  lastcall.op = "move_image" =>
     /\ lastcall.mkdir = "Other" =>
          /\ lastcall.res = "Err"
          /\ images = lastcall.images0
          /\ index = lastcall.index0
          /\ fs = lastcall.fs0
     /\ (lastcall.mkdir = "AlreadyExists" /\ lastcall.images0 # << >>) =>
          /\ Len(images) = Len(lastcall.images0) - 1
          /\ lastcall.mv # "none"

\* the folder name was taken by a plain file and a listed image was moved
C10_Witness ==
  /\ lastcall.op = "move_image"
  /\ lastcall.mkdir = "AlreadyExists"
  /\ lastcall.images0 # << >>

\* folder creation failed for another reason with images listed
C10_WitnessOther ==
  /\ lastcall.op = "move_image"
  /\ lastcall.mkdir = "Other"
  /\ lastcall.images0 # << >>

\* C11: the control loop never ends because of a failed Browser
\* operation; of the dispatched actions only Quit ends it.
C11_OnlyQuitEndsLoop ==
  [][pc = "loop" => pc' \in {"loop", "done"}]_vars

\* C12: a Next on a non-empty list is always followed by a Render of the
\* image at CurrentIndex, also when the index did not move and also when
\* the list has a single element.
C12_NextAlwaysRenders ==
  (lastcall.op = "increment" /\ lastcall.images0 # << >>) =>
     (calls # << >> /\ calls[1] = "load")

\* C13: a next/previous key moves the Browser by step 10 while either
\* shift key is held and by step 1 while neither is.
C13_ShiftSelectsStep ==
  lastcall.op \in {"increment", "decrement"} =>
     lastcall.step = IF lastcall.shift THEN 10 ELSE 1

\* C14: for all positive source and viewport sizes the rectangle lies
\* inside the viewport and no unsigned subtraction goes below zero.
C14_RectInsideViewport ==
  fit # NoFit =>
     /\ ~fit.rect.panic
     /\ fit.rect.x >= 0 /\ fit.rect.y >= 0
     /\ fit.rect.w <= fit.dst_x /\ fit.rect.x <= fit.dst_x - fit.rect.w
     /\ fit.rect.h <= fit.dst_y /\ fit.rect.y <= fit.dst_y - fit.rect.h

\* the same for the sizes up to those of the design's scenarios
C14_RectInsideScenarioSized ==
  (fit # NoFit /\ fit.dst_x <= 2000 /\ fit.dst_y <= 2000) =>
     /\ ~fit.rect.panic
     /\ fit.rect.x >= 0 /\ fit.rect.y >= 0
     /\ fit.rect.x + fit.rect.w <= fit.dst_x
     /\ fit.rect.y + fit.rect.h <= fit.dst_y

\* the rectangle of the three ordered cases in exact integer arithmetic
ExactFit(src_x, src_y, dst_x, dst_y) ==
  IF src_x < dst_x /\ src_y < dst_y
  THEN <<(dst_x - src_x) \div 2, (dst_y - src_y) \div 2, src_x, src_y>>
  ELSE IF src_x * dst_y > dst_x * src_y
  THEN LET h == (src_y * dst_x) \div src_x
       IN <<0, (dst_y - h) \div 2, dst_x, h>>
  ELSE LET w == (src_x * dst_y) \div src_y
       IN <<(dst_x - w) \div 2, 0, w, dst_y>>

\* the sizes whose products stay within 32-bit integers
ScenarioSized ==
  fit # NoFit /\ fit.src_x <= 2000 /\ fit.src_y <= 2000
              /\ fit.dst_x <= 2000 /\ fit.dst_y <= 2000

\* C15: Fit Geometry gives the rectangle of the three ordered cases with
\* h = floor(src_h*dst_w/src_w) and w = floor(src_w*dst_h/src_h).
C15_ThreeCasesExact ==
  ScenarioSized =>
     <<fit.rect.x, fit.rect.y, fit.rect.w, fit.rect.h>>
       = ExactFit(fit.src_x, fit.src_y, fit.dst_x, fit.dst_y)

\* C16: whenever Move fails because relocating the file failed, ImageList
\* and CurrentIndex are as they were before the Move.
C16_FailedRelocationKeepsList ==
  (lastcall.op = "move_image" /\ lastcall.mv = "err") =>
     (images = lastcall.images0 /\ index = lastcall.index0)

\* the clear, draw and present calls of the last action, in order
Drawn == SelectSeq(calls, LAMBDA c : c \in {"clear", "draw", "present"})

\* C17: a Render whose load succeeds calls clear, draw, present in that
\* order, once each; one whose load fails calls none of them and returns
\* success; a Render on an empty list calls nothing at all.
C17_RenderCallOrder ==
  /\ lastcall.load = "ok" => Drawn = <<"clear", "draw", "present">>
  /\ lastcall.load = "err" => (Drawn = << >> /\ lastcall.res = "Ok")
  /\ images = << >> => calls = << >>

\* C17 as amended: clear, draw, present in that order, once each, when the
\* load and the draw succeed; clear and draw without present when the draw
\* fails; nothing after a failed load; nothing at all on an empty list.
C17_RenderCallOrderAmended ==
  /\ (lastcall.load = "ok" /\ lastcall.copy = "ok") =>
        Drawn = <<"clear", "draw", "present">>
  /\ (lastcall.load = "ok" /\ lastcall.copy = "err") =>
        (Drawn = <<"clear", "draw">> /\ lastcall.res = "Ok")
  /\ lastcall.load = "err" => (Drawn = << >> /\ lastcall.res = "Ok")
  /\ images = << >> => calls = << >>

\* an image was loaded and the copy to the canvas failed
C17_Witness ==
  /\ lastcall.load = "ok"
  /\ lastcall.copy = "err"
  /\ calls # << >>

\* an image was loaded, drawn and presented
C17_WitnessDrawn ==
  /\ lastcall.load = "ok"
  /\ lastcall.copy = "ok"
  /\ Len(calls) = 6

\* C18: DestinationFolder never changes, and ImageList changes only in a
\* Move, by losing one element while the others keep their order; Next,
\* Prev, First, Last and Render leave it alone.
C18_ListOnlyShrinks ==
  [][ /\ dest_folder' = dest_folder
      /\ images' # images =>
           /\ lastcall'.op = "move_image"
           /\ Len(images') = Len(images) - 1
           /\ \E i \in 1..Len(images) :
                \A j \in 1..Len(images') :
                  images'[j] = images[IF j < i THEN j ELSE j + 1] ]_vars

\* a Next moved the index after an image had been moved away
C18_Witness ==
  /\ lastcall.op = "increment"
  /\ index # lastcall.index0
  /\ fs.files # {}

\* C20: whenever ImageList is empty CurrentIndex is 0; a list becomes
\* empty only by a Move from a one-element list at index 0.
C20_EmptyListIndexZero ==
  /\ images = << >> => index = 0
  /\ (images = << >> /\ lastcall.images0 # << >>) =>
        /\ lastcall.op = "move_image"
        /\ Len(lastcall.images0) = 1
        /\ lastcall.index0 = 0

\* the only image was moved away and Last was asked for on the empty list
C20_Witness ==
  /\ images = << >>
  /\ lastcall.op = "last"
  /\ fs.files # {}

\* C19: with a source as large as the viewport on one axis and not larger
\* on the other the image is drawn at its own size, centred; with both
\* equal that is the full viewport (0, 0, dst_w, dst_h).
C19_EqualSizeNative ==
  (ScenarioSized
     /\ \/ (fit.src_x = fit.dst_x /\ fit.src_y <= fit.dst_y)
        \/ (fit.src_y = fit.dst_y /\ fit.src_x <= fit.dst_x)) =>
       /\ fit.rect.w = fit.src_x
       /\ fit.rect.h = fit.src_y
       /\ fit.rect.x = (fit.dst_x - fit.src_x) \div 2
       /\ fit.rect.y = (fit.dst_y - fit.src_y) \div 2

====
